---- MODULE Spec2Model ----
(***************************************************************************)
(* Model of src/app.py (EnergyZ): the Streamlit script that extracts text  *)
(* from an uploaded document, asks a language model for structured fields, *)
(* evaluates the answer, shows it for review and saves it with             *)
(* save_extracted_fields, which writes three rows in one SQLAlchemy        *)
(* session.                                                                *)
(*                                                                         *)
(* Three specifications share the variables:                               *)
(*   SaveSpec   a caller invokes save_extracted_fields with FieldMaps      *)
(*              drawn from a bounded set, any number of times up to        *)
(*              MaxCalls;                                                  *)
(*   Spec       the script of lines 136-174, each st.button call           *)
(*              returning a boolean chosen by the host;                    *)
(*   RerunSpec  the same script under the host's execution model: the      *)
(*              script is re-executed from the top on every interaction    *)
(*              and a button reads True only in the run its click caused.  *)
(***************************************************************************)
EXTENDS Naturals, Sequences, FiniteSets

\* Bound on the number of save_extracted_fields invocations.
MaxCalls == 2

\* None / SQL NULL as a column value, and as an id not yet assigned (ids are
\* positive integers).
NULL == "NULL"
NoId == 0

(***************************************************************************)
(* Inputs                                                                  *)
(***************************************************************************)
\* A FieldMap as far as save_extracted_fields reads it: whether `data` is a
\* mapping at all (has .get), what it holds under "Capex" (nothing, a
\* number, or text that is no number such as "5M") and whether it holds a
\* currency.  Every other key is read with .get and stored as it is.
CapexValues == {"absent", "num", "text"}
CurrencyValues == {"absent", "EUR"}
Mappings == [mapping : {TRUE}, capex : CapexValues, currency : CurrencyValues]
NonMapping == [mapping |-> FALSE, capex |-> "absent", currency |-> "absent"]
FieldMaps == Mappings \cup {NonMapping}

VARIABLES
    \* committed database contents (tables projects, financial_data,
    \* environmental_data)
    projects, financial, environmental,
    \* the session of the running save_extracted_fields call
    sess,       \* "none" | "open" | "closed"
    txn,        \* "none" | "active" | "committed" | "rolledback"
    pend,       \* rows added to the session and not committed
    pid,        \* project.id of this call's Project object (NoId until flushed)
    data,       \* the `data` argument of the running / last call
    spc,        \* position inside save_extracted_fields ("idle": not in a call)
    ret,        \* outcome of the call: "none" | "True" | "False" | "raise"
    errs,       \* st.error calls made by the running / last save call
    cause,      \* why the try block was left: "none" | "payload" | "coercion" | "fault"
    calls,      \* save_extracted_fields invocations so far
    \* the script (lines 136-174) and its host
    ppc,        \* position in the script ("done", "crashed": the run is over)
    upload,     \* uploaded_file: NoUpload or [kind, content]
    text,       \* the local `text`
    resp,       \* structured_output: the model's response (its kind)
    sdict,      \* structured_dict / editable_data
    events,     \* what this script run has done so far, in order
    reports,    \* st.error calls made by the script itself in this run
    dbAtEval,   \* the committed rows when eval() was entered
    trigger     \* the interaction that caused this run

dbvars == <<projects, financial, environmental>>
savevars == <<sess, txn, pend, pid, data, spc, ret, errs, cause, calls>>
scriptvars == <<ppc, upload, text, resp, sdict, events, reports, dbAtEval, trigger>>
vars == <<projects, financial, environmental, sess, txn, pend, pid, data,
          spc, ret, errs, cause, calls, ppc, upload, text, resp, sdict, events,
          reports, dbAtEval, trigger>>

NoPend == [project |-> {}, financial |-> {}, environmental |-> {}]

(***************************************************************************)
(* Database helpers                                                        *)
(***************************************************************************)
Max(S) == IF S = {} THEN 0 ELSE CHOOSE m \in S : \A n \in S : n <= m

\* Integer primary key: the next id of a table with rows `rows`.
NextId(rows) == Max({r.id : r \in rows}) + 1

\* What a Float column does with the value bound to it: None is stored as
\* NULL, a number as it is; text that is no number is either refused by the
\* bind processor / the database (ERROR) or kept as given by a lenient
\* backend (raw).  It is never turned into NULL.
CoerceFloat(v) ==
    IF v = "absent" THEN {NULL}
    ELSE IF v = "num" THEN {"num"}
    ELSE {"ERROR", "raw"}

\* data.get("Capex")
GetCapex(d) == d.capex

\* currency="USD" (line 112): the FieldMap is not consulted.
StoredCurrency(d) == "USD"

\* project.id as read on lines 107 and 117: the id flush() assigned (the
\* variant: read before any flush, still None).
ProjectIdNotFlushed(p) == NoId
ProjectId(p) == p

(***************************************************************************)
(* save_extracted_fields (lines 90-133)                                    *)
(***************************************************************************)
\* A statement of the try block raised: control goes to `except Exception`.
\* why: "payload" (data has no .get), "coercion" (a value was refused by its
\* column type), "fault" (anything else: connectivity, constraint, ...).
Raise(why) ==
    /\ spc' = "L129"
    /\ cause' = why
    /\ UNCHANGED <<dbvars, sess, txn, pend, pid, data, ret, errs, calls>>

\* line 91: session = Session()
save_begin(d) ==
    /\ spc = "idle"
    /\ calls < MaxCalls
    /\ data' = d
    /\ sess' = "open"
    /\ txn' = "active"
    /\ pend' = NoPend
    /\ pid' = NoId
    /\ ret' = "none"
    /\ errs' = 0
    /\ cause' = "none"
    /\ calls' = calls + 1
    /\ spc' = "L93"
    /\ UNCHANGED dbvars

\* lines 93-103: Project(project_name=data.get(...), ...); session.add(project)
\* data.get raises AttributeError when data is no mapping.
save_project ==
    /\ spc = "L93"
    /\ \/ /\ data.mapping
          /\ pend' = [pend EXCEPT !.project = {[id |-> NoId]}]
          /\ spc' = "L104"
          /\ UNCHANGED <<dbvars, sess, txn, pid, data, ret, errs, cause, calls>>
       \/ ~data.mapping /\ Raise("payload")
       \/ Raise("fault")

\* line 104: session.flush(): the Project row is INSERTed inside the
\* transaction and its id assigned; nothing is committed.
\* The committed rows of a table after a flush of `flushed` (the variant: a
\* flush that commits, as under autocommit).
CommittedAfterFlushAutocommit(committed, flushed) == committed \cup flushed
CommittedAfterFlush(committed, flushed) == committed

save_flush ==
    /\ spc = "L104"
    /\ \/ LET newid == NextId(projects) IN
          /\ pid' = newid
          /\ pend' = [pend EXCEPT !.project = {[id |-> newid]}]
          /\ projects' = CommittedAfterFlush(projects, {[id |-> newid]})
          /\ spc' = "L106"
          /\ UNCHANGED <<financial, environmental, sess, txn, data, ret, errs, cause, calls>>
       \/ Raise("fault")

\* lines 106-114: FinancialData(project_id=project.id, ...); session.add
save_financial ==
    /\ spc = "L106"
    /\ \/ /\ pend' = [pend EXCEPT !.financial =
                        {[id |-> NoId, project_id |-> ProjectId(pid),
                          capex |-> GetCapex(data),
                          currency |-> StoredCurrency(data)]}]
          /\ spc' = "L116"
          /\ UNCHANGED <<dbvars, sess, txn, pid, data, ret, errs, cause, calls>>
       \/ Raise("fault")

\* lines 116-124: EnvironmentalData(project_id=project.id, ...); session.add
save_environmental ==
    /\ spc = "L116"
    /\ \/ /\ pend' = [pend EXCEPT !.environmental =
                        {[id |-> NoId, project_id |-> ProjectId(pid)]}]
          /\ spc' = "L126"
          /\ UNCHANGED <<dbvars, sess, txn, pid, data, ret, errs, cause, calls>>
       \/ Raise("fault")

\* line 126: session.commit(): flushes the two dependent rows (binding the
\* Float columns) and commits the transaction, all rows at once; on success
\* `return True` is pending and the finally block runs.
save_commit ==
    /\ spc = "L126"
    /\ \/ \E c \in CoerceFloat(GetCapex(data)) \ {"ERROR"} :
          /\ projects' = projects \cup pend.project
          /\ financial' = financial \cup
                 {[id |-> NextId(financial), project_id |-> f.project_id,
                   capex |-> c, currency |-> f.currency] : f \in pend.financial}
          /\ environmental' = environmental \cup
                 {[id |-> NextId(environmental), project_id |-> e.project_id]
                    : e \in pend.environmental}
          /\ pend' = NoPend
          /\ txn' = "committed"
          /\ ret' = "True"
          /\ spc' = "L133"
          /\ UNCHANGED <<sess, pid, data, errs, cause, calls>>
       \/ "ERROR" \in CoerceFloat(GetCapex(data)) /\ Raise("coercion")
       \/ Raise("fault")

\* line 129: session.rollback(); on a broken connection (the fault that
\* failed the step) it may itself raise, and then the exception leaves the
\* handler: the finally block runs and the call raises.
\* Where control goes when a statement of the handler raises: to the finally
\* block (the variant: straight out of the function, as if close() were not
\* in a finally).
HandlerRaiseSkipsFinally == "exited"
HandlerRaiseTarget == "L133"

save_rollback ==
    /\ spc = "L129"
    /\ \/ /\ txn' = "rolledback"
          /\ pend' = NoPend
          /\ spc' = "L130"
          /\ UNCHANGED <<dbvars, sess, pid, data, ret, errs, cause, calls>>
       \/ /\ cause = "fault"
          /\ ret' = "raise"
          /\ spc' = HandlerRaiseTarget
          /\ UNCHANGED <<dbvars, sess, txn, pend, pid, data, errs, cause, calls>>

\* lines 130-131: st.error(...); return False.  Like every st.* call,
\* st.error may raise (the host stops or reruns the script from inside it).
save_report ==
    /\ spc = "L130"
    /\ \/ /\ errs' = errs + 1
          /\ ret' = "False"
          /\ spc' = "L133"
          /\ UNCHANGED <<dbvars, sess, txn, pend, pid, data, cause, calls>>
       \/ /\ ret' = "raise"
          /\ spc' = HandlerRaiseTarget
          /\ UNCHANGED <<dbvars, sess, txn, pend, pid, data, errs, cause, calls>>

\* line 133: finally: session.close().  Closing releases the connection;
\* a transaction still in progress is discarded (rolled back).
save_close ==
    /\ spc = "L133"
    /\ sess' = "closed"
    /\ txn' = IF txn = "active" THEN "rolledback" ELSE txn
    /\ pend' = NoPend
    /\ spc' = "exited"
    /\ UNCHANGED <<dbvars, pid, data, ret, errs, cause, calls>>

save_extracted_fields ==
    \/ save_project \/ save_flush \/ save_financial \/ save_environmental
    \/ save_commit \/ save_rollback \/ save_report \/ save_close

(***************************************************************************)
(* The script (lines 136-174)                                              *)
(***************************************************************************)
\* type=[...] of st.file_uploader (line 140)
Kinds == {"pdf", "docx", "txt", "xlsx", "csv", "json"}
\* What the file holds: text the reader extracts, nothing extractable (a
\* scanned PDF, an empty file), or bytes the reader raises on.
Contents == {"text", "empty", "corrupt"}
Uploads == [kind : Kinds, content : Contents]
\* uploaded_file is None: nothing is uploaded.
NoUpload == [kind |-> "none", content |-> "none"]

\* The model's response: a dict literal, a literal of another type, text
\* that is no Python expression, an expression with calls in it.
Responses == {"dict", "value", "prose", "code"}

Has(e) == \E i \in DOMAIN events : events[i] = e
Log(e) == events' = Append(events, e)
Ended == ppc \in {"done", "crashed"}

\* A new execution of the script from the top.
StartRun(u, why) ==
    /\ Ended
    /\ upload' = u
    /\ trigger' = why
    /\ ppc' = "L142"
    /\ text' = "" /\ resp' = NULL /\ sdict' = NULL
    /\ events' = <<>> /\ reports' = 0
    /\ dbAtEval' = <<projects, financial, environmental>>
    /\ UNCHANGED <<dbvars, savevars>>

\* line 142: if uploaded_file:
L142 ==
    /\ ppc = "L142"
    /\ ppc' = IF upload = NoUpload THEN "done" ELSE "L143"
    /\ UNCHANGED <<dbvars, savevars, upload, text, resp, sdict, events,
                   reports, dbAtEval, trigger>>

\* lines 146-151: the kinds whose text is extracted
TextKinds == {"pdf", "docx", "txt"}

\* lines 143-157: file_type and the branch on it.  No call here is inside a
\* try: a reader that raises ends the script run with the exception.
L143 ==
    /\ ppc = "L143"
    /\ \/ /\ upload.content = "corrupt"
          /\ Log("extract_failed")
          /\ ppc' = "crashed"
          /\ UNCHANGED text
       \/ /\ upload.content # "corrupt"
          /\ IF upload.kind \in TextKinds /\ upload.content = "text"
                THEN text' = "T" /\ Log("text")
                ELSE text' = "" /\ UNCHANGED events
          /\ ppc' = "L159"
    /\ UNCHANGED <<dbvars, savevars, upload, resp, sdict, reports, dbAtEval, trigger>>

\* line 159: if text:  (the variant: no test of text)
TextGateOpen(t) == TRUE
TextGate(t) == t # ""

L159 ==
    /\ ppc = "L159"
    /\ ppc' = IF TextGate(text) THEN "L162" ELSE "done"
    /\ UNCHANGED <<dbvars, savevars, upload, text, resp, sdict, events,
                   reports, dbAtEval, trigger>>

\* line 162: if st.button("Extract Structured Data"):
L162(b) ==
    /\ ppc = "L162"
    /\ ppc' = IF b THEN "L163" ELSE "done"
    /\ UNCHANGED <<dbvars, savevars, upload, text, resp, sdict, events,
                   reports, dbAtEval, trigger>>

\* line 163: structured_output = extract_project_fields(text), outside the
\* try of line 164: a failed call ends the script run with the exception.
L163 ==
    /\ ppc = "L163"
    /\ \/ \E r \in Responses :
            /\ resp' = r
            /\ events' = events \o <<"llm_call", "llm_ret">>
            /\ ppc' = "L165"
       \/ /\ events' = events \o <<"llm_call", "llm_failed">>
          /\ ppc' = "crashed"
          /\ UNCHANGED resp
    /\ UNCHANGED <<dbvars, savevars, upload, text, sdict, reports, dbAtEval, trigger>>

\* line 173-174: except Exception as e: st.error(...)
Except173 ==
    /\ reports' = reports + 1
    /\ ppc' = "done"

\* What eval(structured_output) can do with an expression that has calls
\* in it: the expression runs with the module's globals (Session, engine,
\* the mapped classes), so it may change the committed rows; here it either
\* leaves them or deletes them all.
EvalEffects ==
    {<<projects, financial, environmental>>, <<{}, {}, {}>>}

\* line 165: structured_dict = eval(structured_output)
\*   a dict literal evaluates to the dict, another literal to its value;
\*   text that is no expression raises SyntaxError (caught on line 173);
\*   an expression with calls is executed: it has its effects and then
\*   yields a dict or another value, raises an Exception (caught), or
\*   raises SystemExit, which `except Exception` does not catch.
L165 ==
    /\ ppc = "L165"
    /\ dbAtEval' = <<projects, financial, environmental>>
    /\ \/ /\ resp \in {"dict", "value"}
          /\ sdict' = resp
          /\ Log("parsed")
          /\ ppc' = "L167"
          /\ UNCHANGED <<dbvars, reports>>
       \/ /\ resp = "prose"
          /\ Except173
          /\ UNCHANGED <<dbvars, sdict, events>>
       \/ /\ resp = "code"
          /\ \E eff \in EvalEffects :
                /\ projects' = eff[1]
                /\ financial' = eff[2]
                /\ environmental' = eff[3]
          /\ \/ \E v \in {"dict", "value"} :
                   /\ sdict' = v
                   /\ Log("parsed")
                   /\ ppc' = "L167"
                   /\ UNCHANGED reports
             \/ Except173 /\ UNCHANGED <<sdict, events>>
             \/ ppc' = "crashed" /\ UNCHANGED <<sdict, events, reports>>
    /\ UNCHANGED <<savevars, upload, text, resp, trigger>>

\* lines 166-167: editable_data = st.experimental_data_editor(...)
\* The editor returns data of the type it was given, its values as the
\* operator left them; a value it cannot show raises (caught on line 173).
L167 ==
    /\ ppc = "L167"
    /\ \/ /\ sdict = "dict"
          /\ \E d \in Mappings : sdict' = d
          /\ Log("review")
          /\ ppc' = "L169"
          /\ UNCHANGED reports
       \/ /\ sdict = "value"
          /\ sdict' = NonMapping
          /\ Log("review")
          /\ ppc' = "L169"
          /\ UNCHANGED reports
       \/ /\ sdict = "value"
          /\ Except173
          /\ UNCHANGED <<sdict, events>>
    /\ UNCHANGED <<dbvars, savevars, upload, text, resp, dbAtEval, trigger>>

\* line 169: if st.button("Save to Database"):
L169(b) ==
    /\ ppc = "L169"
    /\ IF b /\ calls < MaxCalls
          THEN Log("approved") /\ ppc' = "L170"
          ELSE UNCHANGED events /\ ppc' = "done"
    /\ UNCHANGED <<dbvars, savevars, upload, text, resp, sdict, reports,
                   dbAtEval, trigger>>

\* line 170: success = save_extracted_fields(editable_data)
L170 ==
    /\ ppc = "L170"
    /\ save_begin(sdict)
    /\ Log("save")
    /\ ppc' = "in_save"
    /\ UNCHANGED <<upload, text, resp, sdict, reports, dbAtEval, trigger>>

\* The steps of the call made on line 170.
InSave(step) ==
    /\ ppc = "in_save"
    /\ step
    /\ UNCHANGED scriptvars

\* lines 171-174: the call is over: st.success on True, nothing on False,
\* and an exception it raised is caught by `except Exception` on line 173.
L171 ==
    /\ ppc = "in_save"
    /\ spc = "exited"
    /\ spc' = "idle"
    /\ IF ret = "raise" THEN Except173
                        ELSE ppc' = "done" /\ UNCHANGED reports
    /\ UNCHANGED <<dbvars, sess, txn, pend, pid, data, ret, errs, cause,
                   calls, upload, text, resp, sdict, events, dbAtEval, trigger>>

(***************************************************************************)
(* SaveSpec: save_extracted_fields called with any FieldMap                *)
(***************************************************************************)
InitDb ==
    /\ projects = {} /\ financial = {} /\ environmental = {}

InitSave ==
    /\ sess = "none" /\ txn = "none" /\ pend = NoPend /\ pid = NoId
    /\ data = NonMapping /\ spc = "idle" /\ ret = "none" /\ errs = 0
    /\ cause = "none"
    /\ calls = 0

InitScript ==
    /\ ppc = "L142" /\ upload = NoUpload /\ text = "" /\ resp = NULL
    /\ sdict = NULL /\ events = <<>> /\ reports = 0
    /\ dbAtEval = <<{}, {}, {}>> /\ trigger = "none"

Init == InitDb /\ InitSave /\ InitScript

Call == \E d \in FieldMaps : save_begin(d) /\ UNCHANGED scriptvars

\* The caller takes the result (or the exception) of the finished call.
CallerResume ==
    /\ spc = "exited"
    /\ spc' = "idle"
    /\ UNCHANGED <<dbvars, sess, txn, pend, pid, data, ret, errs, cause, calls, scriptvars>>

SaveNext ==
    \/ Call
    \/ save_project /\ UNCHANGED scriptvars
    \/ save_flush /\ UNCHANGED scriptvars
    \/ save_financial /\ UNCHANGED scriptvars
    \/ save_environmental /\ UNCHANGED scriptvars
    \/ save_commit /\ UNCHANGED scriptvars
    \/ save_rollback /\ UNCHANGED scriptvars
    \/ save_report /\ UNCHANGED scriptvars
    \/ save_close /\ UNCHANGED scriptvars
    \/ CallerResume

SaveSpec == Init /\ [][SaveNext]_vars

(***************************************************************************)
(* Spec: the script, each st.button call returning what the host chooses   *)
(***************************************************************************)
\* Any interaction (a new or removed upload, a click, an edit) starts a run.
Rerun == \E u \in Uploads \cup {NoUpload} : StartRun(u, "none")

ExtractButton == \E b \in BOOLEAN : L162(b)
SaveButton == \E b \in BOOLEAN : L169(b)

Next ==
    \/ Rerun
    \/ L142 \/ L143 \/ L159 \/ ExtractButton \/ L163 \/ L165 \/ L167
    \/ SaveButton \/ L170
    \/ InSave(save_project)
    \/ InSave(save_flush)
    \/ InSave(save_financial)
    \/ InSave(save_environmental)
    \/ InSave(save_commit)
    \/ InSave(save_rollback)
    \/ InSave(save_report)
    \/ InSave(save_close)
    \/ L171

Spec == Init /\ [][Next]_vars

(***************************************************************************)
(* RerunSpec: the script under the host's rerun-per-interaction execution  *)
(***************************************************************************)
\* The operator replaces or removes the uploaded file.
UploadFile ==
    \E u \in Uploads \cup {NoUpload} : u # upload /\ StartRun(u, "upload")

\* The operator clicks a widget the last run rendered: the extract button is
\* rendered when line 162 was reached, the editor and the save button when
\* lines 167 and 169 were.
ClickExtract == Has("text") /\ StartRun(upload, "extract")
ClickSave == Has("review") /\ StartRun(upload, "save")
EditField == Has("review") /\ StartRun(upload, "edit")

\* st.button returns True only in the run its own click caused.
ButtonValue(name) == trigger = name

\* The statement of lines 169-174 as a whole: the button read and, in its
\* True arm, the call of save_extracted_fields and what follows it.
SaveStatement ==
    /\ ppc \in {"L169", "L170", "in_save"}
    /\ \/ L169(ButtonValue("save"))
       \/ L170
       \/ InSave(save_extracted_fields)
       \/ L171

RerunNext ==
    \/ UploadFile \/ ClickExtract \/ ClickSave \/ EditField
    \/ L142 \/ L143 \/ L159
    \/ L162(ButtonValue("extract"))
    \/ L163 \/ L165 \/ L167
    \/ SaveStatement

RerunSpec == Init /\ [][RerunNext]_vars

(***************************************************************************)
(* Claims about save_extracted_fields (checked under SaveSpec)             *)
(***************************************************************************)
FinancialOf(i) == {f \in financial : f.project_id = i}
EnvironmentalOf(i) == {e \in environmental : e.project_id = i}
ProjectsOf(i) == {p \in projects : p.id = i}

\* Every project id some committed row carries.
CommittedIds ==
    {p.id : p \in projects} \cup {f.project_id : f \in financial}
        \cup {e.project_id : e \in environmental}

\* C1 (atomicity): in every state, during or after any call and whatever
\* step failed, the committed rows of one call (those carrying its project
\* id) are one Project, one FinancialData and one EnvironmentalData row, or
\* none at all; a flushed but uncommitted call has contributed nothing.
C1_Atomicity ==
    /\ \A i \in CommittedIds :
          /\ Cardinality(ProjectsOf(i)) = 1
          /\ Cardinality(FinancialOf(i)) = 1
          /\ Cardinality(EnvironmentalOf(i)) = 1
    /\ (spc \notin {"idle", "exited", "L133"} \/ ret # "True")
          => (pid = NoId \/ pid \notin CommittedIds)

\* A call failed after its Project was flushed, with rows of an earlier
\* call committed: none of the failed call's rows is there.
C1_Witness ==
    /\ spc = "exited" /\ ret = "False" /\ pid # NoId
    /\ projects # {} /\ pid \notin CommittedIds

\* C2 (referential integrity): every committed FinancialData and
\* EnvironmentalData row has a non-null project_id that is the id of a
\* committed Project row, and a dependent row is only ever constructed with
\* the id flush() has already assigned to this call's Project.
C2_ReferentialIntegrity ==
    /\ \A f \in financial :
          f.project_id # NoId /\ \E p \in projects : p.id = f.project_id
    /\ \A e \in environmental :
          e.project_id # NoId /\ \E p \in projects : p.id = e.project_id
    /\ \A r \in pend.financial : r.project_id = pid
    /\ \A r \in pend.environmental : r.project_id = pid
    /\ (pend.financial # {} \/ pend.environmental # {}) =>
          (pid # NoId /\ pend.project = {[id |-> pid]})

\* Both dependent rows of a second call are pending, built with the flushed
\* id, while the first call's rows are committed.
C2_Witness ==
    /\ pend.financial # {} /\ pend.environmental # {}
    /\ environmental # {} /\ financial # {}
    /\ pid = 2

\* C3 (failure semantics): when the call is over, either it returned True
\* and its three rows are committed, or a step failed and then it returned
\* False (it did not raise), reported exactly one error and left none of its
\* rows committed.
C3_FailureSemantics ==
    spc = "exited" =>
        \/ /\ ret = "True" /\ cause = "none" /\ errs = 0
           /\ pid # NoId /\ ProjectsOf(pid) # {}
           /\ FinancialOf(pid) # {} /\ EnvironmentalOf(pid) # {}
        \/ /\ ret = "False" /\ cause # "none" /\ errs = 1
           /\ (pid = NoId \/ pid \notin CommittedIds)

\* C4 (transaction release): when control has left save_extracted_fields,
\* by return or by exception, its session is closed, its transaction was
\* ended by commit or rollback and holds no pending row; no session is open
\* outside a call.
C4_TransactionRelease ==
    /\ spc = "exited" =>
          /\ sess = "closed"
          /\ txn \in {"committed", "rolledback"}
          /\ pend = NoPend
    /\ spc = "idle" => sess # "open"

\* The call left by exception (rollback or the error report raised).
C4_Witness == spc = "exited" /\ ret = "raise" /\ sess = "closed"

\* C5 (numeric tolerance): a mapping whose Capex is text that is no number
\* is saved (True is returned, unless some unrelated fault hit) with the
\* capex column NULL.
C5_NumericTolerance ==
    (spc = "exited" /\ data.mapping /\ data.capex = "text"
        /\ cause \in {"none", "coercion"}) =>
        /\ ret = "True"
        /\ \A f \in FinancialOf(pid) : f.capex = NULL

\* C6 (currency default): after a successful save the FinancialData row of
\* the call holds the FieldMap's currency, and "USD" when it has none.
C6_CurrencyDefault ==
    (spc = "exited" /\ ret = "True") =>
        \A f \in FinancialOf(pid) :
            f.currency = IF data.currency = "absent" THEN "USD"
                         ELSE data.currency

(***************************************************************************)
(* Claims about the script                                                 *)
(***************************************************************************)
\* eval() has been applied to this run's response.
Evaluated == resp # NULL /\ ppc # "L165"

\* C7 (parser safety): once the parsing step has run on a response that is
\* not structured data (prose, or an expression with calls), a parse failure
\* has been reported and the run halted, and the committed rows are what
\* they were when parsing began.
C7_ParserSafety ==
    (Evaluated /\ resp \in {"prose", "code"}) =>
        /\ ppc = "done" /\ reports = 1 /\ ~Has("parsed")
        /\ <<projects, financial, environmental>> = dbAtEval

\* C8 (pre-persistence errors): after a failed text extraction or a failed
\* language-model call the script has reported one error and ended its run
\* normally (no unhandled exception), and save_extracted_fields was not
\* invoked.
C8_PrePersistenceErrors ==
    (Has("extract_failed") \/ Has("llm_failed")) =>
        /\ ppc = "done" /\ reports = 1
        /\ ~Has("save") /\ spc = "idle"

Gated == <<"text", "llm_call", "llm_ret", "parsed", "review", "approved", "save">>

C10_ApprovalReachesPersistence ==
    (trigger = "save" /\ Ended) =>
        /\ Cardinality({i \in DOMAIN events : events[i] = "save"}) = 1
        /\ ~Has("llm_call")

====
